---- MODULE Spec2Model ----
(***************************************************************************)
(* The A2A webhook of the LinkedIn headline generator                      *)
(* (src/src/mastra/index.ts, POST /webhook/linkedin-headline) and the      *)
(* headline workflows it runs (src/src/mastra/workflows/ and the earlier   *)
(* revisions kept under src/unnamed/).                                     *)
(*                                                                         *)
(* JSON values are tagged records ([t |-> "string", s |-> ...]); a string  *)
(* that the workflow processes (a text part, a headline, a line of the     *)
(* agent's reply) is a sequence of tokens, one token standing for a        *)
(* character (" ", ":", "<") or a word.                                    *)
(***************************************************************************)
EXTENDS Integers, Sequences, FiniteSets, TLC

VARIABLES
    request,         \* the transport object handed to the handler
    registered,      \* the workflow revision registered with mastra
    pc,              \* the handler's position
    body,            \* let body (index.ts:201)
    run,             \* the workflow run: its stage and the record between stages
    workflowResult,  \* what run.start() resolved to (index.ts:315)
    thrown,          \* the error caught at index.ts:438
    response,        \* the Response returned to the framework
    now,             \* Date.now()
    peer             \* a second invocation of the handler, suspended at an await

vars == <<request, registered, pc, body, run, workflowResult, thrown, response, now, peer>>

-----------------------------------------------------------------------------
(* Bounds of the model *)

MaxParts == 2
MaxLines == 6
MaxClock == 1
MaxTextLen == 3

-----------------------------------------------------------------------------
(* JSON values *)

Undefined == [t |-> "undefined"]
Null == [t |-> "null"]
Str(s) == [t |-> "string", s |-> s]
Num(n) == [t |-> "number", n |-> n]
Text(toks) == [t |-> "text", toks |-> toks]
Arr(items) == [t |-> "array", items |-> items]

\* JavaScript's ToBoolean, as `!x` and `x || y` apply it.
Truthy(v) ==
    CASE v.t = "undefined" -> FALSE
      [] v.t = "null" -> FALSE
      [] v.t = "string" -> v.s # ""
      [] v.t = "number" -> v.n # 0
      [] v.t = "text" -> v.toks # <<>>
      [] OTHER -> TRUE

\* a || b
OrElse(a, b) == IF Truthy(a) THEN a ELSE b

\* obj.key of a JSON object held as a record; a key the object lacks, and
\* any key of a non-object primitive, reads undefined.
Get(obj, key) ==
    IF obj.t = "object" /\ key \in DOMAIN obj.fields THEN obj.fields[key] ELSE Undefined

Obj(fields) == [t |-> "object", fields |-> fields]

\* JSON.stringify drops the keys whose value is undefined.
Stringify(fields) ==
    LET keep == {k \in DOMAIN fields : fields[k] # Undefined}
    IN  [k \in keep |-> fields[k]]

-----------------------------------------------------------------------------
(* Program constants *)

InvalidRequest == -32600
InvalidParams == -32602
InternalError == -32603
HttpOk == 200
HttpBadRequest == 400
HttpServerError == 500
NumHeadlines == 5
TopicCap == 80
FallbackCap == 60

-----------------------------------------------------------------------------
(* Strings as token sequences *)

\* The words the workflows look for, each a token of its own.
Keywords ==
    {"generate", "post", "completed", "finished", "built", "trump", "nigeria",
     "government", "relationship", "excited", "thrilled", "happy"}

\* String.prototype.toLowerCase on one token.
Lower(tok) ==
    CASE tok = "Generate" -> "generate"
      [] tok = "Post" -> "post"
      [] tok = "Built" -> "built"
      [] OTHER -> tok

\* The keywords that occur as substrings of one (lower-cased) token.
KeywordsIn(tok) ==
    CASE Lower(tok) \in Keywords -> {Lower(tok)}
      [] tok = "posted" -> {"post"}
      [] tok = "regenerated" -> {"generate"}
      [] OTHER -> {}

\* s.toLowerCase().includes(kw); a keyword never spans two tokens.
Includes(s, kw) == \E i \in 1..Len(s) : kw \in KeywordsIn(s[i])

\* The length in characters of one token.
TokLen(tok) ==
    CASE tok \in {" ", "<", ">", ":", ".", ",", ";", "w"} -> 1
      [] tok = "&nbsp;" -> 6
      [] tok = "w40" -> 40
      [] tok \in {"[party]", "[rocket]", "[muscle]", "[bulb]"} -> 2
      [] OTHER -> 8

RECURSIVE StrLen(_)
StrLen(s) == IF s = <<>> THEN 0 ELSE TokLen(Head(s)) + StrLen(Tail(s))

\* s.substring(0, cap): the longest prefix of whole tokens within cap characters.
RECURSIVE Substring0(_, _)
Substring0(s, cap) ==
    IF s = <<>> \/ TokLen(Head(s)) > cap THEN <<>>
    ELSE <<Head(s)>> \o Substring0(Tail(s), cap - TokLen(Head(s)))

IsSpace(tok) == tok = " "

RECURSIVE TrimStart(_)
TrimStart(s) == IF s # <<>> /\ IsSpace(Head(s)) THEN TrimStart(Tail(s)) ELSE s

RECURSIVE TrimEnd(_)
TrimEnd(s) ==
    IF s # <<>> /\ IsSpace(s[Len(s)]) THEN TrimEnd(SubSeq(s, 1, Len(s) - 1)) ELSE s

\* String.prototype.trim
Trim(s) == TrimEnd(TrimStart(s))

\* s.indexOf(tok), 1-based; 0 when tok does not occur (JavaScript's -1).
IndexOf(s, tok) ==
    IF \E i \in 1..Len(s) : s[i] = tok
    THEN CHOOSE i \in 1..Len(s) : s[i] = tok /\ \A j \in 1..(i - 1) : s[j] # tok
    ELSE 0

\* .replace(/<[^>]*>/g, " "): a "<" with a ">" somewhere after it opens a tag
\* that runs to the first such ">"; the tag becomes one space.
RECURSIVE StripTags(_)
StripTags(s) ==
    IF s = <<>> THEN <<>>
    ELSE IF Head(s) = "<" /\ IndexOf(Tail(s), ">") > 0
         THEN <<" ">> \o StripTags(SubSeq(s, IndexOf(Tail(s), ">") + 2, Len(s)))
         ELSE <<Head(s)>> \o StripTags(Tail(s))

\* .replace(/&nbsp;/g, " ")
ReplaceNbsp(s) == [i \in 1..Len(s) |-> IF s[i] = "&nbsp;" THEN " " ELSE s[i]]

\* .replace(/\s+/g, " ")
RECURSIVE CollapseSpace(_)
CollapseSpace(s) ==
    IF Len(s) < 2 THEN s
    ELSE IF IsSpace(s[1]) /\ IsSpace(s[2]) THEN CollapseSpace(Tail(s))
         ELSE <<Head(s)>> \o CollapseSpace(Tail(s))

\* const cleanText = text.replace(...).replace(...).replace(...).trim()
CleanText(text) == Trim(CollapseSpace(ReplaceNbsp(StripTags(text))))


-----------------------------------------------------------------------------
(* generateHeadlinesStep: content extraction *)

\* A normalization that reads the text of a bare string only.
NormalizeInput_StringOnly(inputData) ==
    IF inputData.t = "text"
    THEN [text |-> inputData, targetAudience |-> Undefined, tone |-> Str("professional")]
    ELSE [text |-> Text(<<>>),
          targetAudience |-> Get(inputData, "targetAudience"),
          tone |-> Get(inputData, "tone")]

\* typeof inputData === "string" ? {text: inputData, ..., tone: "professional"}
\*                                : inputData
NormalizeInput(inputData) ==
    IF inputData.t = "text"
    THEN [text |-> inputData, targetAudience |-> Undefined, tone |-> Str("professional")]
    ELSE [text |-> Get(inputData, "text"),
          targetAudience |-> Get(inputData, "targetAudience"),
          tone |-> Get(inputData, "tone")]

\* The template revision: the instruction is cut at the first colon when the
\* text holds "generate" and "post" anywhere.
PostContent(cleanText) ==
    IF Includes(cleanText, "generate") /\ Includes(cleanText, "post")
       /\ IndexOf(cleanText, ":") > 0
    THEN Trim(SubSeq(cleanText, IndexOf(cleanText, ":") + 1, Len(cleanText)))
    ELSE cleanText

\* The two-stage agent revision: "generate" alone and a colon suffice.
PostContentLlm2(cleanText) ==
    IF IndexOf(cleanText, ":") > 0 /\ Includes(cleanText, "generate")
    THEN Trim(SubSeq(cleanText, IndexOf(cleanText, ":") + 1, Len(cleanText)))
    ELSE cleanText

\* postContent.split(/\.\s+/)[0]: the text before the first "." that a space follows.
FirstSentence(s) ==
    LET stops == {i \in 1..(Len(s) - 1) : s[i] = "." /\ IsSpace(s[i + 1])}
    IN  IF stops = {} THEN s
        ELSE SubSeq(s, 1, (CHOOSE i \in stops : \A j \in stops : i <= j) - 1)

IsTopicEmoji(tok) == tok \in {"[party]", "[rocket]", "[muscle]"}

\* .replace(/[...]+\s*$/g, ""): a run of emoji, then spaces, at the end.
RECURSIVE DropEmojiRun(_)
DropEmojiRun(s) ==
    IF s # <<>> /\ IsTopicEmoji(s[Len(s)]) THEN DropEmojiRun(SubSeq(s, 1, Len(s) - 1)) ELSE s

StripTrailingEmoji(s) ==
    LET t == TrimEnd(s)
    IN  IF t # <<>> /\ IsTopicEmoji(t[Len(t)]) THEN DropEmojiRun(t) ELSE s

\* .replace(/[,;:]$/g, "")
StripTrailingPunct(s) ==
    IF s # <<>> /\ s[Len(s)] \in {",", ";", ":"} THEN SubSeq(s, 1, Len(s) - 1) ELSE s

Cap(s, cap) == IF StrLen(s) > cap THEN Trim(Substring0(s, cap)) ELSE s

\* let mainTopic = ... (the first sentence, capped at 80 characters, trailing
\* emoji and punctuation removed)
MainTopic(postContent) ==
    LET first == FirstSentence(postContent)
        topic == IF first # <<>> THEN Cap(Trim(first), TopicCap)
                 ELSE IF StrLen(postContent) > TopicCap
                      THEN Trim(Substring0(postContent, TopicCap))
                      ELSE Trim(postContent)
    IN  Trim(StripTrailingPunct(StripTrailingEmoji(topic)))

-----------------------------------------------------------------------------
(* generateHeadlinesStep: the template producer *)

\* A selection that looks for the news keywords first.
Category_NewsFirst(postContent) ==
    CASE Includes(postContent, "trump") \/ Includes(postContent, "nigeria")
            \/ Includes(postContent, "government")
            \/ Includes(postContent, "relationship") -> "news"
      [] Includes(postContent, "completed") \/ Includes(postContent, "finished")
            \/ Includes(postContent, "built") -> "achievement"
      [] Includes(postContent, "excited") \/ Includes(postContent, "thrilled")
            \/ Includes(postContent, "happy") -> "excitement"
      [] OTHER -> "general"

\* The content category, first match wins.
Category(postContent) ==
    CASE Includes(postContent, "completed") \/ Includes(postContent, "finished")
            \/ Includes(postContent, "built") -> "achievement"
      [] Includes(postContent, "trump") \/ Includes(postContent, "nigeria")
            \/ Includes(postContent, "government")
            \/ Includes(postContent, "relationship") -> "news"
      [] Includes(postContent, "excited") \/ Includes(postContent, "thrilled")
            \/ Includes(postContent, "happy") -> "excitement"
      [] OTHER -> "general"

\* The five frames of a category around the topic.
Frames(category, mainTopic) ==
    CASE category = "achievement" ->
            << <<"[party] ">> \o mainTopic,
               <<"Proud to Share: ">> \o mainTopic,
               <<"From Start to Finish - ">> \o mainTopic,
               <<"Achievement Unlocked: ">> \o mainTopic,
               mainTopic \o <<" [rocket]">> >>
      [] category = "news" ->
            << <<"Breaking: ">> \o mainTopic,
               mainTopic \o <<" - What This Means">>,
               <<"Analysis: ">> \o mainTopic,
               mainTopic \o <<" [globe]">>,
               <<"Understanding the Impact: ">> \o mainTopic >>
      [] category = "excitement" ->
            << <<"[party] ">> \o mainTopic,
               mainTopic \o <<" [rocket]">>,
               <<"Big News: ">> \o mainTopic,
               <<"Celebrating: ">> \o mainTopic,
               mainTopic \o <<" - A Milestone!">> >>
      [] OTHER ->
            << mainTopic,
               <<"Insights: ">> \o mainTopic,
               mainTopic \o <<" - Key Takeaways">>,
               <<"Reflecting on: ">> \o mainTopic,
               mainTopic \o <<" [bulb]">> >>

\* execute of generateHeadlinesStep, template revision.
GenerateTemplate(inputData) ==
    LET in == NormalizeInput(inputData)
        postContent == PostContent(CleanText(in.text.toks))
    IN  [headlines |-> Frames(Category(postContent), MainTopic(postContent)),
         text |-> in.text,
         targetAudience |-> in.targetAudience,
         tone |-> OrElse(in.tone, Str("professional"))]

\* execute of generateHeadlinesStep in the revision that answers {message, headlines}:
\* five frames around the raw text.
GenerateSimple(inputData) ==
    LET in == NormalizeInput(inputData)
        text == in.text.toks
    IN  [headlines |-> << <<"Just ">> \o text \o <<" [rocket]">>,
                          <<"Highlights from my recent work: ">> \o text,
                          <<"Proud moment: ">> \o text \o <<"!">>,
                          text \o <<" - lessons and reflections">>,
                          <<"Wrapping up ">> \o text
                              \o <<": my journey as a backend developer">> >>,
         text |-> in.text,
         targetAudience |-> in.targetAudience,
         tone |-> OrElse(in.tone, Str("professional"))]


\* `${text}` of the first createWorkflow revision, which destructures
\* inputData without normalising it: a bare string has no `text` property and
\* the template literal prints "undefined".
FramedText(inputData) ==
    LET text == Get(inputData, "text")
    IN  IF text.t = "text" THEN text.toks ELSE <<"undefined">>

\* generate-headlines of the first createWorkflow revision.
GenerateFramed(inputData) ==
    LET text == FramedText(inputData)
    IN  [headlines |-> << text \o <<": What You Need to Know">>,
                          <<"The Ultimate Guide to ">> \o text,
                          <<"How ">> \o text \o <<" Changed My Perspective">>,
                          text \o <<" - Insights from the Field">>,
                          <<"Why ">> \o text \o <<" Matters Now More Than Ever">> >>,
         text |-> Get(inputData, "text"),
         targetAudience |-> Get(inputData, "targetAudience"),
         tone |-> OrElse(Get(inputData, "tone"), Str("professional"))]

-----------------------------------------------------------------------------
(* generateHeadlinesStep: the agent-backed producers *)

\* A line's numbering prefix: digits and "." ("1.") or digits and ")" ("2)").
IsDotNumber(tok) == tok = "1."
IsNumberPrefix(tok) == tok \in {"1.", "2)"}

\* line.replace(/^\d+[\.\)]\s*/, "").trim()
StripNumber(line) ==
    Trim(IF line # <<>> /\ IsNumberPrefix(Head(line)) THEN TrimStart(Tail(line)) ELSE line)

\* .slice(0, 5)
Slice5(lines) == SubSeq(lines, 1, IF Len(lines) < NumHeadlines THEN Len(lines) ELSE NumHeadlines)

\* A top-up that pushes the filler once (`if` for `while`).
PadTo5_Once(headlines, filler) ==
    IF Len(headlines) < NumHeadlines THEN Append(headlines, filler) ELSE headlines

\* while (headlines.length < 5) headlines.push(filler)
PadTo5(headlines, filler) ==
    headlines \o [i \in 1..(NumHeadlines - Len(headlines)) |-> filler]

\* .map((line) => line.replace(/^\d+[\.\)]\s*/, "").trim())
StripNumbers(lines) == [i \in 1..Len(lines) |-> StripNumber(lines[i])]

\* .map((line) => line.trim())
TrimLines(lines) == [i \in 1..Len(lines) |-> Trim(lines[i])]

NonEmpty(line) == line # <<>>

\* The two-stage revision: numbering prefixes are cut off, blank lines dropped.
ParseReplyLlm2(lines) == Slice5(SelectSeq(StripNumbers(lines), NonEmpty))

KeptLlm3(line) == line # <<>> /\ ~IsDotNumber(Head(line))

\* The three-stage revision: blank lines and lines that start with a number
\* and a dot are dropped.
ParseReplyLlm3(lines) == Slice5(SelectSeq(TrimLines(lines), KeptLlm3))

\* execute of generateHeadlinesStep, two-stage agent revision, once
\* linkedinAgent.generate(prompt) resolved to `reply` (its text split at "\n").
GenerateLlm2(inputData, reply) ==
    LET in == NormalizeInput(inputData)
        postContent == PostContentLlm2(CleanText(in.text.toks))
        filler == Trim(Substring0(postContent, FallbackCap)) \o <<"... [bulb]">>
        headlines == PadTo5(ParseReplyLlm2(reply), filler)
    IN  [headlines |-> headlines, bestHeadline |-> headlines[1], text |-> in.text]

\* execute of generateHeadlinesStep, three-stage agent revision.
GenerateLlm3(inputData, reply) ==
    LET in == NormalizeInput(inputData)
        postContent == PostContent(CleanText(in.text.toks))
        filler == MainTopic(postContent) \o <<" [bulb]">>
    IN  [headlines |-> PadTo5(ParseReplyLlm3(reply), filler),
         text |-> in.text,
         targetAudience |-> in.targetAudience,
         tone |-> OrElse(in.tone, Str("professional"))]

-----------------------------------------------------------------------------
(* selectBestHeadlineStep, formatJsonRpcResponseStep, returnHeadlineStep *)

\* A selection that takes the last candidate.
SelectBest_Last(inputData) ==
    [headlines |-> inputData.headlines,
     bestHeadline |-> inputData.headlines[Len(inputData.headlines)],
     text |-> inputData.text]

\* const bestHeadline = headlines[0]
SelectBest(inputData) ==
    [headlines |-> inputData.headlines,
     bestHeadline |-> inputData.headlines[1],
     text |-> inputData.text]

\* The select step of the {message, headlines} revision passes no text on.
SelectBestSimple(inputData) ==
    [headlines |-> inputData.headlines, bestHeadline |-> inputData.headlines[1]]

\* `${prefix}-${Date.now()}`
Minted(prefix, clock) == [prefix |-> prefix, n |-> clock]

RECURSIVE Numbered(_, _)
\* headlines.map((h, i) => `${i + 1}. ${h}`).join("\n\n"), from index i on
Numbered(headlines, i) ==
    IF i > Len(headlines) THEN <<>>
    ELSE <<ToString(i), ". ">> \o headlines[i]
         \o (IF i < Len(headlines) THEN <<"\n\n">> ELSE <<>>)
         \o Numbered(headlines, i + 1)

\* A text block that recommends the last candidate listed.
ResponseText_LastListed(headlines, bestHeadline) ==
    <<"Here are ", ToString(Len(headlines)), " LinkedIn headline options:", "\n\n">>
    \o Numbered(headlines, 1)
    \o <<"\n\n", "[bulb] Recommended: ">> \o headlines[Len(headlines)]

\* const responseText = `Here are ${headlines.length} ...`
ResponseText(headlines, bestHeadline) ==
    <<"Here are ", ToString(Len(headlines)), " LinkedIn headline options:", "\n\n">>
    \o Numbered(headlines, 1)
    \o <<"\n\n", "[bulb] Recommended: ">> \o bestHeadline

\* The A2A result object shared by the format steps and the handler.
A2AResult(taskId, clock, messageText, data) ==
    [id |-> taskId,
     contextId |-> Minted("context", clock),
     status |-> [state |-> "completed",
                 timestamp |-> clock,
                 message |-> [messageId |-> data.messageId,
                              role |-> "agent",
                              parts |-> <<[kind |-> "text", text |-> messageText]>>,
                              kind |-> "message"]],
     artifacts |-> <<[artifactId |-> Minted("artifact", clock),
                      name |-> "linkedinHeadlineResponse",
                      parts |-> <<[kind |-> "text", text |-> messageText]>>],
                     [artifactId |-> Minted("data", clock),
                      name |-> "HeadlineResults",
                      parts |-> <<[kind |-> "data", data |-> data.data]>>]>>]

\* execute of formatJsonRpcResponseStep (three-stage revisions): topic is the text.
FormatJsonRpc(inputData, clock) ==
    [jsonrpc |-> Str("2.0"),
     id |-> Str("request-001"),
     result |-> A2AResult(Minted("task", clock), clock,
                    ResponseText(inputData.headlines, inputData.bestHeadline),
                    [messageId |-> Minted("msg", clock),
                     data |-> [bestHeadline |-> inputData.bestHeadline,
                               allHeadlines |-> inputData.headlines,
                               topic |-> inputData.text,
                               generatedAt |-> clock]])]

\* execute of formatJsonRpcResponseStep (two-stage revision): no topic.
FormatJsonRpcLlm2(inputData, clock) ==
    [jsonrpc |-> Str("2.0"),
     id |-> Str("request-001"),
     result |-> A2AResult(Minted("task", clock), clock,
                    ResponseText(inputData.headlines, inputData.bestHeadline),
                    [messageId |-> Minted("msg", clock),
                     data |-> [bestHeadline |-> inputData.bestHeadline,
                               allHeadlines |-> inputData.headlines,
                               generatedAt |-> clock]])]

\* execute of returnHeadlineStep
ReturnHeadline(inputData) ==
    [message |-> inputData.bestHeadline, headlines |-> inputData.headlines]

\* return-best-headline of the first createWorkflow revision: { text }.
ReturnText(inputData) == [text |-> inputData.bestHeadline]


-----------------------------------------------------------------------------
(* The webhook handler: body acquisition and validation *)

None == [t |-> "none"]

\* A response whose status is always 200.
Response_AlwaysOk(status, fields) ==
    [t |-> "response", status |-> HttpOk, body |-> Stringify(fields)]

\* new Response(JSON.stringify(fields), {status})
Response(status, fields) == [t |-> "response", status |-> status, body |-> Stringify(fields)]

\* JSON.parse(text): the document's value, or a SyntaxError.
JsonParse(raw) ==
    IF raw.t = "json" THEN [ok |-> TRUE, value |-> raw.value]
    ELSE [ok |-> FALSE, error |-> "Unexpected token in JSON"]

\* index.ts:202-228: the body by the first applicable strategy, or the error
\* the read throws.
AcquireBody(req) ==
    CASE req.transport = "text" ->
            IF req.raw.t = "rejects" THEN [ok |-> FALSE, error |-> "body read failed"]
            ELSE JsonParse(req.raw)
      [] req.transport = "body" -> [ok |-> TRUE, value |-> req.value]
      [] req.transport = "stream" ->
            IF req.raw.t = "rejects" THEN [ok |-> FALSE, error |-> "stream error"]
            ELSE JsonParse(req.raw)
      [] OTHER -> [ok |-> TRUE, value |-> Undefined]

\* A find that keeps the last element of kind "text".
FindTextPart_Last(parts) ==
    LET idx == {i \in 1..Len(parts) : Get(parts[i], "kind") = Str("text")}
    IN  IF idx = {} THEN Undefined
        ELSE parts[CHOOSE i \in idx : \A j \in idx : j <= i]

\* message.parts.find((part) => part.kind === "text")
RECURSIVE FindTextPart(_)
FindTextPart(parts) ==
    IF parts = <<>> THEN Undefined
    ELSE IF Get(Head(parts), "kind") = Str("text") THEN Head(parts)
         ELSE FindTextPart(Tail(parts))

\* body.params?.message
MessageOf(b) == Get(Get(b, "params"), "message")

\* The text part of a message whose parts are an array.
TextPartOf(b) == FindTextPart(Get(MessageOf(b), "parts").items)

\* An error envelope that also carries result: null.
ErrorFields_NullResult(id, code, message) ==
    [jsonrpc |-> Str("2.0"), id |-> id, result |-> Null,
     error |-> [code |-> code, message |-> message]]

\* {jsonrpc: "2.0", id, error: {code, message}}
ErrorFields(id, code, message) ==
    [jsonrpc |-> Str("2.0"), id |-> id, error |-> [code |-> code, message |-> message]]

\* A protocol check that only tests for a body.
ProtocolInvalid_BodyOnly(b) == ~Truthy(b)

\* index.ts:236
ProtocolInvalid(b) == ~Truthy(b) \/ Get(b, "jsonrpc") # Str("2.0")

\* index.ts:256
PartsInvalid(b) ==
    \/ ~Truthy(MessageOf(b))
    \/ ~Truthy(Get(MessageOf(b), "parts"))
    \/ Get(MessageOf(b), "parts").t # "array"

\* index.ts:278
TextPartInvalid(b) == ~Truthy(TextPartOf(b)) \/ ~Truthy(Get(TextPartOf(b), "text"))

\* index.ts:236-241: id: body?.id || null
ProtocolErrorId(b) == OrElse(Get(b, "id"), Null)

\* A validation that reports a missing text part as an invalid request.
Validate_WrongCode(b) ==
    IF ProtocolInvalid(b) \/ PartsInvalid(b) \/ TextPartInvalid(b)
    THEN Response(HttpBadRequest,
             ErrorFields(ProtocolErrorId(b), InvalidRequest,
                         "Invalid Request - must be JSON-RPC 2.0"))
    ELSE None

\* A validation that checks params before the protocol version.
Validate_ParamsFirst(b) ==
    IF PartsInvalid(b)
    THEN Response(HttpBadRequest,
             ErrorFields(Get(b, "id"), InvalidParams,
                         "Invalid params - missing message.parts"))
    ELSE IF TextPartInvalid(b)
    THEN Response(HttpBadRequest,
             ErrorFields(Get(b, "id"), InvalidParams,
                         "Invalid params - no text part in message"))
    ELSE IF ProtocolInvalid(b)
    THEN Response(HttpBadRequest,
             ErrorFields(ProtocolErrorId(b), InvalidRequest,
                         "Invalid Request - must be JSON-RPC 2.0"))
    ELSE None

\* index.ts:235-296: the 400 response of the first failing check, None when
\* the body passes all three.
Validate(b) ==
    IF ProtocolInvalid(b)
    THEN Response(HttpBadRequest,
             ErrorFields(ProtocolErrorId(b), InvalidRequest,
                         "Invalid Request - must be JSON-RPC 2.0"))
    ELSE IF PartsInvalid(b)
    THEN Response(HttpBadRequest,
             ErrorFields(Get(b, "id"), InvalidParams,
                         "Invalid params - missing message.parts"))
    ELSE IF TextPartInvalid(b)
    THEN Response(HttpBadRequest,
             ErrorFields(Get(b, "id"), InvalidParams,
                         "Invalid params - no text part in message"))
    ELSE None

\* index.ts:438-470: the catch block's response.
CatchResponse(message) ==
    Response(HttpServerError,
        [jsonrpc |-> Str("2.0"),
         id |-> Null,
         error |-> [code |-> InternalError, message |-> "Internal error",
                    data |-> message]])


-----------------------------------------------------------------------------
(* The webhook handler: the response to a finished run *)

\* (workflowResult as any).result || {}
WorkflowOutput(wr) == IF "result" \in DOMAIN wr THEN wr.result ELSE <<>>

\* workflowOutput.bestHeadline || workflowOutput.message || "LinkedIn Headline Generated"
ConstructedBest(out) ==
    IF "bestHeadline" \in DOMAIN out /\ out.bestHeadline # <<>> THEN out.bestHeadline
    ELSE IF "message" \in DOMAIN out /\ out.message # <<>> THEN out.message
    ELSE <<"LinkedIn Headline Generated">>

\* workflowOutput.headlines || [bestHeadline]
ConstructedAll(out) ==
    IF "headlines" \in DOMAIN out THEN out.headlines ELSE <<ConstructedBest(out)>>

\* index.ts:355-412: the handler's own envelope for an output that is not JSON-RPC.
ConstructResponse(wr, requestId, taskId, userText, clock) ==
    [jsonrpc |-> Str("2.0"),
     id |-> requestId,
     result |-> A2AResult(taskId, clock, ConstructedBest(WorkflowOutput(wr)),
                    [messageId |-> Minted("response", clock),
                     data |-> [bestHeadline |-> ConstructedBest(WorkflowOutput(wr)),
                               allHeadlines |-> ConstructedAll(WorkflowOutput(wr)),
                               topic |-> userText,
                               generatedAt |-> clock]])]

IsJsonRpc(obj) == "jsonrpc" \in DOMAIN obj /\ obj.jsonrpc = Str("2.0")

\* index.ts:336-416: finalResult, or the error thrown when the run failed.
FinalResult(wr, requestId, taskId, userText, clock) ==
    IF IsJsonRpc(wr) THEN [ok |-> TRUE, value |-> wr]
    ELSE IF wr.status = "success" /\ IsJsonRpc(WorkflowOutput(wr))
    THEN [ok |-> TRUE, value |-> wr.result]
    ELSE IF wr.status = "success"
    THEN [ok |-> TRUE, value |-> ConstructResponse(wr, requestId, taskId, userText, clock)]
    ELSE [ok |-> FALSE, error |-> "Workflow execution failed"]

\* A response that keeps the id the workflow wrote.
WithRequestId_Kept(finalResult, requestId) == finalResult

\* index.ts:419-422: {...finalResult, id: requestId}
WithRequestId(finalResult, requestId) ==
    [k \in DOMAIN finalResult \cup {"id"} |->
        IF k = "id" THEN requestId ELSE finalResult[k]]

\* index.ts:298-301
RequestIdOf(b) == Get(b, "id")
UserTextOf(b) == Get(TextPartOf(b), "text")
TaskIdOf(b) == Get(MessageOf(b), "taskId")

\* index.ts:336-470: the response once run.start() resolved to wr.
RespondTo(b, wr, clock) ==
    LET final == FinalResult(wr, RequestIdOf(b), TaskIdOf(b), UserTextOf(b), clock)
    IN  IF final.ok
        THEN Response(HttpOk, WithRequestId(final.value, RequestIdOf(b)))
        ELSE CatchResponse(final.error)

\* What run.start() resolves to: the last step's output, or the failure of
\* the step that threw.
RunResult(r) ==
    IF r.stage = "success" THEN [status |-> "success", result |-> r.data]
    ELSE [status |-> "failed", error |-> r.error]


-----------------------------------------------------------------------------
(* The requests and replies the model draws from *)

\* The workflow revisions: the template pipeline of src/src/mastra/workflows,
\* the two agent-backed pipelines and the pipeline answering {message, headlines}.
Revisions == {"template3", "llm3", "llm2", "message3"}

AgentRevisions == {"llm3", "llm2"}

\* The first createWorkflow revision, whose inputSchema is an object only and
\* whose last step returns { text }.
LegacyRevisions == {"text3"}

Ids == {Str("t-1"), Str("request-001"), Str(""), Num(7), Num(0), Null, Undefined}

TaskIds == {Undefined, Str("task-9")}

\* A plain post, an instruction with an achievement post, markup only, and an
\* instruction that follows an earlier colon.
SampleTexts ==
    { <<"w">>,
      <<"Generate", " ", "post", ":", " ", "w", " ", "built">>,
      <<"<", "w", ">">>,
      <<"w", ":", " ", "generate", " ", "post", ":", " ", "excited">> }

TextPart(toks) == Obj([kind |-> Str("text"), text |-> Text(toks)])

PartChoices ==
    {TextPart(toks) : toks \in SampleTexts \cup {<<>>}}
    \cup {Obj([kind |-> Str("text")]), Obj([kind |-> Str("data"), data |-> Str("d")])}

SeqsUpTo(S, n) == UNION {[1..k -> S] : k \in 0..n}

Messages ==
    {Undefined, Obj([role |-> Str("user")]), Obj([parts |-> Str("not-an-array")])}
    \cup {Obj([parts |-> Arr(ps), taskId |-> t]) :
             ps \in SeqsUpTo(PartChoices, MaxParts), t \in TaskIds}

ParamsChoices == {Undefined} \cup {Obj([message |-> m]) : m \in Messages}

\* Parsed bodies: values that are no object, envelopes of another protocol
\* version, and JSON-RPC 2.0 envelopes of every params shape.
Bodies ==
    {Null, Str("raw")}
    \cup {Obj([jsonrpc |-> j, id |-> i, params |-> p]) :
             j \in {Undefined, Str("1.0")}, i \in Ids,
             p \in {Undefined, Obj([message |-> Obj([parts |-> Arr(<<TextPart(<<"w">>)>>)])])}}
    \cup {Obj([jsonrpc |-> Str("2.0"), id |-> i, params |-> p]) :
             i \in Ids, p \in ParamsChoices}

\* A body every check accepts, of each id.
SmallBodies ==
    {Str("raw")}
    \cup {Obj([jsonrpc |-> j, id |-> i,
               params |-> Obj([message |-> Obj([parts |-> Arr(<<TextPart(<<"w">>)>>)])])]) :
             j \in {Str("2.0"), Str("1.0")}, i \in Ids}

Json(v) == [t |-> "json", value |-> v]

\* The transport objects: a text() reader, a pre-parsed body, an event stream,
\* and one with none of the three. `transport` names the first branch of
\* index.ts:204-228 that applies to the object; an object with a text() reader
\* may carry a pre-parsed body (`value`) as well.
Requests ==
    {[transport |-> "text", raw |-> r] :
        r \in {Json(b) : b \in Bodies} \cup {[t |-> "garbage"], [t |-> "rejects"]}}
    \cup {[transport |-> "text", raw |-> r, value |-> b] :
        r \in {[t |-> "garbage"], [t |-> "rejects"]},
        b \in {x \in SmallBodies : Validate(x) = None /\ Get(x, "id") = Str("t-1")}}
    \cup {[transport |-> "body", value |-> b] : b \in {x \in SmallBodies : Truthy(x)}}
    \cup {[transport |-> "stream", raw |-> r] :
        r \in {Json(b) : b \in SmallBodies} \cup {[t |-> "garbage"], [t |-> "rejects"]}}
    \cup {[transport |-> "none"]}

LineKinds == {"blank", "plain", "dot"}

\* Line i of a reply: empty, a headline, or a headline numbered "1. ".
Line(kind, i) ==
    CASE kind = "blank" -> <<>>
      [] kind = "plain" -> <<"H", ToString(i)>>
      [] OTHER -> <<"1.", " ", "H", ToString(i)>>

\* Every reply of up to MaxLines lines.
AllReplies ==
    UNION {{[i \in 1..n |-> Line(ks[i], i)] : ks \in [1..n -> LineKinds]} : n \in 1..MaxLines}

\* Replies of one line and of MaxLines lines, all of one kind.
SampleReplies ==
    {[i \in 1..n |-> Line(k, i)] : k \in LineKinds, n \in {1, MaxLines}}

-----------------------------------------------------------------------------
(* The state machine *)

IdleRun == [stage |-> "idle", calls |-> 0]

\* No second invocation is in flight.
NoPeer == [pc |-> "absent"]

\* The steps chained by createWorkflow(...).then(...).commit(), per revision.
Chain(revision) ==
    CASE revision = "llm2" -> <<"generate", "format">>
      [] revision = "message3" -> <<"generate", "select", "return">>
      [] revision = "text3" -> <<"generate", "select", "return">>
      [] OTHER -> <<"generate", "select", "format">>

\* A chain that ends after its first step.
NextStage_Early(revision, stage) == "success"

\* The step the run moves to when `stage` returned; "success" after the last.
NextStage(revision, stage) ==
    LET chain == Chain(revision)
        i == CHOOSE k \in 1..Len(chain) : chain[k] = stage
    IN  IF i = Len(chain) THEN "success" ELSE chain[i + 1]

\* const postContent of the generate step: the text the headlines are made from.
\* The {message, headlines} revision frames the text as it came.
ExtractedContent(revision, inputData) ==
    LET text == NormalizeInput(inputData).text.toks
    IN  CASE revision = "llm2" -> PostContentLlm2(CleanText(text))
          [] revision = "message3" -> text
          [] revision = "text3" -> FramedText(inputData)
          [] OTHER -> PostContent(CleanText(text))

\* The headlines the generate step of a revision returns for an input.
Candidates(revision, inputData, reply) ==
    CASE revision = "llm2" -> GenerateLlm2(inputData, reply).headlines
      [] revision = "llm3" -> GenerateLlm3(inputData, reply).headlines
      [] revision = "message3" -> GenerateSimple(inputData).headlines
      [] revision = "text3" -> GenerateFramed(inputData).headlines
      [] OTHER -> GenerateTemplate(inputData).headlines

\* run.start({inputData}): the run at its first step. `input` keeps inputData,
\* `data` is the record handed from step to step, `calls` counts the agent
\* calls, `done` lists the steps that returned, and the generate step leaves
\* its candidates, the agent's reply and its postContent in `candidates`,
\* `reply` and `post`.
StartRun(inputData) ==
    [stage |-> "generate", calls |-> 0, input |-> inputData, data |-> inputData,
     done |-> <<>>]

Init ==
    /\ request \in Requests
    /\ registered \in Revisions
    /\ pc = "start"
    /\ body = Undefined
    /\ run = IdleRun
    /\ workflowResult = None
    /\ thrown = None
    /\ response = None
    /\ now = 0
    /\ peer = NoPeer

\* index.ts:191-317: the handler up to `await run.start({inputData: userText})`:
\* the body is read and checked; a read that throws is answered by the catch
\* block, a failing check by its 400 response, and otherwise the run starts.
Receive(transport) ==
    /\ pc = "start"
    /\ request.transport = transport
    /\ LET got == AcquireBody(request)
       IN  IF ~got.ok
           THEN /\ thrown' = [t |-> "error", message |-> got.error]
                /\ response' = CatchResponse(got.error)
                /\ pc' = "done"
                /\ UNCHANGED <<body, run>>
           ELSE /\ body' = got.value
                /\ thrown' = thrown
                /\ IF Validate(got.value) # None
                   THEN /\ response' = Validate(got.value)
                        /\ pc' = "done"
                        /\ run' = run
                   ELSE /\ response' = response
                        /\ pc' = "running"
                        /\ run' = StartRun(UserTextOf(got.value))
    /\ UNCHANGED <<peer, request, registered, workflowResult, now>>

ReceiveText == Receive("text")
ReceivePreparsed == Receive("body")
ReceiveStream == Receive("stream")
ReceiveNothing == Receive("none")

\* generate-headlines of the revisions that call no agent.
GenerateHeadlines ==
    /\ run.stage = "generate"
    /\ registered \notin AgentRevisions
    /\ LET out == CASE registered = "template3" -> GenerateTemplate(run.data)
                    [] registered = "text3" -> GenerateFramed(run.data)
                    [] OTHER -> GenerateSimple(run.data)
       IN  run' = [stage |-> NextStage(registered, "generate"), calls |-> run.calls,
                   input |-> run.input, data |-> out, candidates |-> out.headlines,
                   post |-> ExtractedContent(registered, run.data),
                   done |-> Append(run.done, "generate")]
    /\ UNCHANGED <<peer, request, registered, pc, body, workflowResult, thrown, response, now>>

\* generate-headlines of the agent revisions, linkedinAgent.generate(prompt)
\* resolving to one of `replies`.
GenerateWithAgent(replies) ==
    /\ run.stage = "generate"
    /\ registered \in AgentRevisions
    /\ \E reply \in replies :
          LET out == IF registered = "llm2" THEN GenerateLlm2(run.data, reply)
                     ELSE GenerateLlm3(run.data, reply)
          IN  run' = [stage |-> NextStage(registered, "generate"),
                      calls |-> run.calls + 1, input |-> run.input, reply |-> reply,
                      data |-> out, candidates |-> out.headlines,
                      post |-> ExtractedContent(registered, run.data),
                      done |-> Append(run.done, "generate")]
    /\ UNCHANGED <<peer, request, registered, pc, body, workflowResult, thrown, response, now>>

\* A run that calls the agent again after a rejected call.
FailedRun_Retried(r, error) == [r EXCEPT !.calls = r.calls + 1]

\* The run after the agent call of its generate step rejected: the step
\* throws, nothing catches it within the step, and the run ends as failed.
FailedRun(r, error) ==
    [stage |-> "failed", calls |-> r.calls + 1, input |-> r.input,
     error |-> error, done |-> r.done]

\* linkedinAgent.generate(prompt) rejects: the step throws and the run fails.
AgentFails ==
    /\ run.stage = "generate"
    /\ registered \in AgentRevisions
    /\ run' = FailedRun(run, "agent unavailable")
    /\ UNCHANGED <<peer, request, registered, pc, body, workflowResult, thrown, response, now>>

\* select-best-headline
SelectBestHeadline ==
    /\ run.stage = "select"
    /\ run' = [run EXCEPT !.stage = NextStage(registered, "select"),
                          !.data = IF registered \in {"message3", "text3"}
                                   THEN SelectBestSimple(run.data)
                                   ELSE SelectBest(run.data),
                          !.done = Append(run.done, "select")]
    /\ UNCHANGED <<peer, request, registered, pc, body, workflowResult, thrown, response, now>>

\* format-jsonrpc-response
FormatResponse ==
    /\ run.stage = "format"
    /\ run' = [run EXCEPT !.stage = NextStage(registered, "format"),
                          !.data = IF registered = "llm2"
                                   THEN FormatJsonRpcLlm2(run.data, now)
                                   ELSE FormatJsonRpc(run.data, now),
                          !.done = Append(run.done, "format")]
    /\ UNCHANGED <<peer, request, registered, pc, body, workflowResult, thrown, response, now>>

\* return-best-headline
ReturnBestHeadline ==
    /\ run.stage = "return"
    /\ run' = [run EXCEPT !.stage = NextStage(registered, "return"),
                          !.data = IF registered = "text3" THEN ReturnText(run.data)
                                   ELSE ReturnHeadline(run.data),
                          !.done = Append(run.done, "return")]
    /\ UNCHANGED <<peer, request, registered, pc, body, workflowResult, thrown, response, now>>

\* index.ts:315-470: run.start() resolves and the handler answers.
\* A handler that answers a run only when it succeeded.
Respond_SuccessOnly ==
    /\ pc = "running"
    /\ run.stage = "success"
    /\ workflowResult' = RunResult(run)
    /\ response' = RespondTo(body, RunResult(run), now)
    /\ thrown' = thrown
    /\ pc' = "done"
    /\ UNCHANGED <<peer, request, registered, body, run, now>>

Respond ==
    /\ pc = "running"
    /\ run.stage \in {"success", "failed"}
    /\ workflowResult' = RunResult(run)
    /\ response' = RespondTo(body, RunResult(run), now)
    /\ thrown' = IF run.stage = "failed"
                 THEN [t |-> "error", message |-> "Workflow execution failed"]
                 ELSE thrown
    /\ pc' = "done"
    /\ UNCHANGED <<peer, request, registered, body, run, now>>

\* Time passes while the handler awaits the run.
Tick ==
    /\ pc = "running"
    /\ now < MaxClock
    /\ now' = now + 1
    /\ UNCHANGED <<peer, request, registered, pc, body, run, workflowResult, thrown, response>>

Next ==
    \/ ReceiveText
    \/ ReceivePreparsed
    \/ ReceiveStream
    \/ ReceiveNothing
    \/ GenerateHeadlines
    \/ GenerateWithAgent(SampleReplies)
    \/ AgentFails
    \/ SelectBestHeadline
    \/ FormatResponse
    \/ ReturnBestHeadline
    \/ Respond
    \/ Tick

Spec == Init /\ [][Next]_vars

\* The first createWorkflow revision declares inputSchema z.object({text, ...})
\* while the handler starts the run with a bare string. Whether the engine
\* checks inputData against the schema is not decided by this repository: the
\* run either fails here or the generate step runs on the string.
RejectInput ==
    /\ run.stage = "generate"
    /\ registered \in LegacyRevisions
    /\ run.input.t # "object"
    /\ run' = [stage |-> "failed", calls |-> run.calls, input |-> run.input,
               error |-> "invalid input data", done |-> run.done]
    /\ UNCHANGED <<peer, request, registered, pc, body, workflowResult, thrown, response, now>>

\* The handler in front of the first createWorkflow revision.
InitLegacy ==
    /\ request \in Requests
    /\ registered \in LegacyRevisions
    /\ pc = "start"
    /\ body = Undefined
    /\ run = IdleRun
    /\ workflowResult = None
    /\ thrown = None
    /\ response = None
    /\ now = 0
    /\ peer = NoPeer

NextLegacy ==
    \/ ReceiveText
    \/ ReceivePreparsed
    \/ ReceiveStream
    \/ ReceiveNothing
    \/ GenerateHeadlines
    \/ RejectInput
    \/ SelectBestHeadline
    \/ ReturnBestHeadline
    \/ Respond
    \/ Tick

SpecLegacy == InitLegacy /\ [][NextLegacy]_vars


\* The workflow alone, started on a text as run.start({inputData: text}) starts it.
InitPipeline ==
    /\ request = [transport |-> "direct"]
    /\ registered \in Revisions
    /\ pc = "running"
    /\ body = Undefined
    /\ run \in {StartRun(Text(toks)) : toks \in SampleTexts}
    /\ workflowResult = None
    /\ thrown = None
    /\ response = None
    /\ now = 0
    /\ peer = NoPeer

NextPipeline ==
    \/ GenerateHeadlines
    \/ GenerateWithAgent(AllReplies)
    \/ AgentFails
    \/ SelectBestHeadline
    \/ FormatResponse
    \/ ReturnBestHeadline
    \/ Tick

SpecPipeline == InitPipeline /\ [][NextPipeline]_vars


\* The workflow alone over every short text, given as run.start gives it (a
\* bare string) and as the input schema also admits it (an object with text).

TextAlphabet == {"w", " ", ":", "<", ">", "generate", "post", "&nbsp;"}

\* The category keywords and a word that is none.
CategoryTokens ==
    {"completed", "finished", "built", "trump", "nigeria", "government",
     "relationship", "excited", "thrilled", "happy", "w"}

\* Texts of one word and of two words.
CategoryTexts ==
    {<<a>> : a \in CategoryTokens}
    \cup {<<a, " ", b>> : a \in CategoryTokens, b \in CategoryTokens}

AllTexts == SeqsUpTo(TextAlphabet, MaxTextLen) \cup SampleTexts \cup CategoryTexts

\* inputSchema: z.union([z.string(), z.object({text, targetAudience?, tone?})])
InputForms(toks) ==
    {Text(toks),
     Obj([text |-> Text(toks)]),
     Obj([text |-> Text(toks), tone |-> Str("casual")])}

ContentReplies == {<<Line("plain", 1), Line("blank", 2), Line("dot", 3)>>}

InitContent ==
    /\ request = [transport |-> "direct"]
    /\ registered \in Revisions
    /\ pc = "running"
    /\ body = Undefined
    /\ run \in {StartRun(in) : in \in UNION {InputForms(toks) : toks \in AllTexts}}
    /\ workflowResult = None
    /\ thrown = None
    /\ response = None
    /\ now = 0
    /\ peer = NoPeer

NextContent ==
    \/ GenerateHeadlines
    \/ GenerateWithAgent(ContentReplies)
    \/ AgentFails
    \/ SelectBestHeadline
    \/ FormatResponse
    \/ ReturnBestHeadline

SpecContent == InitContent /\ [][NextContent]_vars


\* Two requests in flight in one process. The handler is async: an invocation
\* gives up the event loop at each await (the body read, run.start and the steps
\* within it), and the other invocation may run from there.

\* The invocation in hand, as it is left at an await.
Suspended ==
    [request |-> request, pc |-> pc, body |-> body, run |-> run,
     workflowResult |-> workflowResult, thrown |-> thrown, response |-> response]

\* A 2.0 envelope of each params shape the handler tells apart, and a valid
\* one of another id and text.
ServerBodies ==
    {Obj([jsonrpc |-> Str("2.0"), id |-> Str("request-001"),
          params |-> Obj([message |->
              Obj([parts |-> Arr(<<TextPart(<<"w", " ", "built">>)>>),
                   taskId |-> Undefined])])])} \cup
    {Obj([jsonrpc |-> Str("2.0"), id |-> Str("t-1"), params |-> Obj([message |-> m])]) :
        m \in {Undefined,
               Obj([role |-> Str("user")]),
               Obj([parts |-> Str("not-an-array")]),
               Obj([parts |-> Arr(<<Obj([kind |-> Str("data"), data |-> Str("d")])>>)])}
              \cup {Obj([parts |-> Arr(<<TextPart(<<"w">>)>>), taskId |-> t]) : t \in TaskIds}}

ServerRequests ==
    {[transport |-> "text", raw |-> Json(b)] : b \in ServerBodies}
    \cup {[transport |-> "body", value |-> b] :
             b \in {x \in ServerBodies : Validate(x) = None /\ TaskIdOf(x) = Undefined}}
    \cup {[transport |-> "stream", raw |-> Json(b)] :
             b \in {x \in ServerBodies : Validate(x) = None /\ TaskIdOf(x) = Undefined}}
    \cup {[transport |-> "none"]}

\* One agent reply that needs no padding and one that needs it.
ServerReplies ==
    {[i \in 1..n |-> Line("plain", i)] : n \in {1, NumHeadlines}}

InitServer ==
    /\ request \in ServerRequests
    /\ registered \in Revisions
    /\ pc = "start"
    /\ body = Undefined
    /\ run = IdleRun
    /\ workflowResult = None
    /\ thrown = None
    /\ response = None
    /\ now = 0
    /\ peer \in {[request |-> r, pc |-> "start", body |-> Undefined, run |-> IdleRun,
                   workflowResult |-> None, thrown |-> None, response |-> None] :
                    r \in ServerRequests}

\* A resumption that finds the run of the invocation that was suspended: the
\* run held in one slot shared by all invocations.
Switch_SharedRun ==
    /\ peer # NoPeer
    /\ peer' = Suspended
    /\ request' = peer.request
    /\ pc' = peer.pc
    /\ body' = peer.body
    /\ workflowResult' = peer.workflowResult
    /\ thrown' = peer.thrown
    /\ response' = peer.response
    /\ UNCHANGED <<registered, now, run>>

\* The event loop resumes the other invocation.
Switch ==
    /\ peer # NoPeer
    /\ peer' = Suspended
    /\ request' = peer.request
    /\ pc' = peer.pc
    /\ body' = peer.body
    /\ run' = peer.run
    /\ workflowResult' = peer.workflowResult
    /\ thrown' = peer.thrown
    /\ response' = peer.response
    /\ UNCHANGED <<registered, now>>

NextServer ==
    \/ ReceiveText
    \/ ReceivePreparsed
    \/ ReceiveStream
    \/ ReceiveNothing
    \/ GenerateHeadlines
    \/ GenerateWithAgent(ServerReplies)
    \/ AgentFails
    \/ SelectBestHeadline
    \/ FormatResponse
    \/ ReturnBestHeadline
    \/ Respond
    \/ Tick
    \/ Switch

SpecServer == InitServer /\ [][NextServer]_vars

-----------------------------------------------------------------------------
(* One invocation whose awaits settle *)

\* A request for each way through the handler: every params shape, a body of
\* another protocol version, a reader that yields garbage or rejects, a body
\* parsed upstream, a stream, and no body at all.
LiveRequests ==
    {[transport |-> "text", raw |-> r] :
        r \in {Json(b) : b \in ServerBodies}
              \cup {Json(Obj([jsonrpc |-> Str("1.0"), id |-> Str("t-1")])),
                    [t |-> "garbage"], [t |-> "rejects"]}}
    \cup {[transport |-> "body", value |-> b] :
             b \in {x \in ServerBodies : Validate(x) = None}}
    \cup {[transport |-> "stream", raw |-> r] :
             r \in {Json(b) : b \in ServerBodies} \cup {[t |-> "garbage"], [t |-> "rejects"]}}
    \cup {[transport |-> "none"]}

InitLive ==
    /\ request \in LiveRequests
    /\ registered \in Revisions
    /\ pc = "start"
    /\ body = Undefined
    /\ run = IdleRun
    /\ workflowResult = None
    /\ thrown = None
    /\ response = None
    /\ now = 0
    /\ peer = NoPeer

\* await rawReq.text() / the stream's end or error: the body read settles.
ReadSettles == ReceiveText \/ ReceivePreparsed \/ ReceiveStream \/ ReceiveNothing

\* await run.start(...): each step of the run returns or throws.
RunSettles ==
    \/ GenerateHeadlines
    \/ GenerateWithAgent(SampleReplies)
    \/ AgentFails
    \/ SelectBestHeadline
    \/ FormatResponse
    \/ ReturnBestHeadline

NextLive == ReadSettles \/ RunSettles \/ Respond \/ Tick

\* The body read settles, and the handler is resumed once the run it awaits
\* has settled.
SpecLive ==
    /\ InitLive /\ [][NextLive]_vars
    /\ WF_vars(ReadSettles) /\ WF_vars(Respond)


-----------------------------------------------------------------------------
(* Observations the properties are stated over *)

\* Whether the request's bytes hold a JSON document, and the document.
BodyParsed ==
    \/ request.transport = "body"
    \/ (request.transport \in {"text", "stream"} /\ request.raw.t = "json")

InboundBody ==
    CASE request.transport = "body" -> request.value
      [] request.transport \in {"text", "stream"} /\ request.raw.t = "json" ->
            request.raw.value
      [] OTHER -> Undefined

InboundId == Get(InboundBody, "id")

Responded == response.t = "response"
HasResult == Responded /\ "result" \in DOMAIN response.body
HasError == Responded /\ "error" \in DOMAIN response.body
Succeeded == Responded /\ response.status = HttpOk

\* result.artifacts[1].parts[0].data of the response
EnvelopeData == response.body.result.artifacts[2].parts[1].data

ErrorCode == response.body.error.code

\* The run was never started.
NotStarted == run = IdleRun

\* The other invocation's response, when it answered 200.
PeerSucceeded ==
    peer # NoPeer /\ peer.response.t = "response" /\ peer.response.status = HttpOk

\* result.id, contextId, the message id and both artifact ids of a success response.
MintedIds(resp) ==
    <<resp.body.result.id, resp.body.result.contextId,
      resp.body.result.status.message.messageId,
      resp.body.result.artifacts[1].artifactId,
      resp.body.result.artifacts[2].artifactId>>

-----------------------------------------------------------------------------
(* Properties *)

\* C1: a validated request whose run succeeds is answered 200 with the
\* inbound id as the top-level id, for string, number and null ids; the
\* workflow's placeholder "request-001" appears only if it was the inbound id.
C1_IdEchoedOnSuccess ==
    /\ (pc = "done" /\ run.stage = "success") => Succeeded
    /\ Succeeded =>
          /\ InboundId.t \in {"string", "number", "null"} =>
                "id" \in DOMAIN response.body /\ response.body.id = InboundId
          /\ ("id" \in DOMAIN response.body /\ response.body.id = Str("request-001"))
                => InboundId = Str("request-001")

C1_Witness ==
    /\ Succeeded
    /\ InboundId = Num(0)
    /\ workflowResult.result.id = Str("request-001")
    /\ response.body.id = Num(0)

\* C2: every error response to a parsed body carries the inbound id; null
\* stands in only when no id could be read.
C2_ErrorCarriesInboundId ==
    (HasError /\ BodyParsed /\ InboundId.t \in {"string", "number", "null"})
        => response.body.id = InboundId

C4_ExactlyFiveCandidates ==
    /\ run.stage \in {"select", "format", "return", "success"} =>
          /\ Len(run.candidates) = NumHeadlines
          /\ registered = "llm2" =>
                \A i \in 1..NumHeadlines :
                    i > Len(SelectSeq(StripNumbers(run.reply), NonEmpty)) =>
                        run.candidates[i] =
                            Trim(Substring0(PostContentLlm2(CleanText(run.input.toks)),
                                            FallbackCap)) \o <<"... [bulb]">>
    /\ (run.stage = "success" /\ IsJsonRpc(run.data)) =>
          Len(run.data.result.artifacts[2].parts[1].data.allHeadlines) = NumHeadlines

C4_Witness ==
    /\ run.stage = "success"
    /\ registered = "llm2"
    /\ run.reply = <<<<>>>>
    /\ Len(run.candidates) = NumHeadlines
    /\ run.candidates[1] = run.candidates[NumHeadlines]

\* C5: every response body has jsonrpc "2.0" and exactly one of result and error.
C5_ExactlyOneOfResultAndError ==
    Responded =>
        /\ "jsonrpc" \in DOMAIN response.body
        /\ response.body.jsonrpc = Str("2.0")
        /\ HasResult # HasError

C5_Witness == HasError /\ ~HasResult /\ response.status = HttpServerError

\* C6: a parsed body whose jsonrpc is absent or not "2.0" is answered 400 with
\* code -32600 and no run is started for it.
C6_WrongProtocolRejected ==
    (BodyParsed /\ Get(InboundBody, "jsonrpc") # Str("2.0")) =>
        /\ NotStarted
        /\ pc = "done" =>
              /\ HasError
              /\ response.status = HttpBadRequest
              /\ ErrorCode = InvalidRequest

C6_Witness ==
    /\ HasError
    /\ Get(InboundBody, "jsonrpc") = Str("1.0")
    /\ Truthy(MessageOf(InboundBody))
    /\ response.status = HttpBadRequest

\* The params shapes C7 lists, read off the inbound body.
C7_NoTextKindPart ==
    LET m == Get(Get(InboundBody, "params"), "message")
        parts == Get(m, "parts")
    IN  \/ m = Undefined
        \/ parts = Undefined
        \/ parts.t # "array"
        \/ (parts.t = "array" /\ \A i \in 1..Len(parts.items) :
                                    Get(parts.items[i], "kind") # Str("text"))

C8_ProducerFailureReported ==
    (pc = "done" /\ run.stage = "failed") =>
        /\ response.status = HttpServerError
        /\ HasError /\ ~HasResult
        /\ ErrorCode = InternalError
        /\ response.body.error.data = run.error

\* C9: a body that is not JSON (from text() or from the stream) and a stream
\* that emits an error are answered 400 with code -32600.
C9_MalformedBodyIsInvalidRequest ==
    (pc = "done" /\ request.transport \in {"text", "stream"}
        /\ (request.raw.t = "garbage"
            \/ (request.transport = "stream" /\ request.raw.t = "rejects"))) =>
        /\ response.status = HttpBadRequest
        /\ HasError
        /\ ErrorCode = InvalidRequest

\* C10: status 200 exactly with a result (whose state is "completed"), 400
\* exactly with error code -32600 or -32602, 500 exactly with -32603.
C10_StatusAgreesWithEnvelope ==
    Responded =>
        /\ response.status = HttpOk <=> HasResult
        /\ HasResult => response.body.result.status.state = "completed"
        /\ response.status = HttpBadRequest <=>
              (HasError /\ ErrorCode \in {InvalidRequest, InvalidParams})
        /\ response.status = HttpServerError <=>
              (HasError /\ ErrorCode = InternalError)

C10_Witness ==
    /\ Responded
    /\ response.status = HttpBadRequest
    /\ ErrorCode = InvalidParams
    /\ Get(MessageOf(InboundBody), "parts") = Arr(<<>>)

\* C11: any two success responses of the process differ in task id, context
\* id, message id and both artifact ids, whatever the clock read when they
\* were minted.
C11_MintedIdsUnique ==
    (Succeeded /\ PeerSucceeded) =>
        \A i \in 1..5 : MintedIds(response)[i] # MintedIds(peer.response)[i]

\* status.state and the artifact names, in order, of a success response.
ShapeOf(resp) ==
    [state |-> resp.body.result.status.state,
     names |-> [i \in 1..Len(resp.body.result.artifacts) |->
                   resp.body.result.artifacts[i].name]]

\* C12: two success responses to the same request agree on status.state and
\* on the artifact names ("linkedinHeadlineResponse", then "HeadlineResults"),
\* and differ in task id, message id, artifact ids and timestamp.
C12_SameRequestSameShape ==
    (Succeeded /\ PeerSucceeded /\ peer.request = request) =>
        /\ ShapeOf(response) = ShapeOf(peer.response)
        /\ ShapeOf(response) =
              [state |-> "completed",
               names |-> <<"linkedinHeadlineResponse", "HeadlineResults">>]
        /\ \A i \in {1, 3, 4, 5} : MintedIds(response)[i] # MintedIds(peer.response)[i]
        /\ response.body.result.status.timestamp
              # peer.response.body.result.status.timestamp

\* C13: cleaning (tag stripping, &nbsp; replacement, whitespace collapse,
\* trim, instruction-prefix stripping) applied to the content the generate
\* step extracted returns that content unchanged.
C13_CleaningIdempotent ==
    (registered # "message3" /\ "post" \in DOMAIN run) =>
        ExtractedContent(registered, Text(run.post)) = run.post

\* The text a run was started on, whichever form carried it.
InputText == IF run.input.t = "text" THEN run.input.toks ELSE Get(run.input, "text").toks

\* C14: a run started on a bare string s and a run started on {text: s} have
\* the same candidates and the same best headline, and the tone is
\* "professional" when the input gives none.
C14_StringAndObjectAgree ==
    "candidates" \in DOMAIN run =>
        LET reply == IF "reply" \in DOMAIN run THEN run.reply ELSE <<>>
            fromString == Candidates(registered, Text(InputText), reply)
            fromObject == Candidates(registered, Obj([text |-> Text(InputText)]), reply)
        IN  /\ run.candidates = fromString
            /\ run.candidates = fromObject
            /\ "bestHeadline" \in DOMAIN run.data => run.data.bestHeadline = fromString[1]
            /\ (Get(run.input, "tone") = Undefined /\ "tone" \in DOMAIN run.data)
                   => run.data.tone = Str("professional")

C14_Witness ==
    /\ registered = "template3"
    /\ run.stage = "format"
    /\ run.input = Obj([text |-> Text(<<"generate", "post", ":">>)])
    /\ run.data.bestHeadline = GenerateTemplate(Text(<<"generate", "post", ":">>)).headlines[1]
    /\ run.candidates = GenerateTemplate(Text(<<"generate", "post", ":">>)).headlines

\* Which of the four invalid-params conditions a 2.0 body falls under.
ParamsCondition(b) ==
    CASE MessageOf(b) = Undefined -> "missing message"
      [] Get(MessageOf(b), "parts") = Undefined -> "missing parts"
      [] Get(MessageOf(b), "parts").t # "array" -> "parts not an array"
      [] OTHER -> "no text part"

\* The other invocation answered with an invalid-params error.
PeerInvalidParams ==
    /\ peer # NoPeer
    /\ peer.response.t = "response"
    /\ "error" \in DOMAIN peer.response.body
    /\ peer.response.body.error.code = InvalidParams

\* C15: two invalid-params errors raised for different conditions (missing
\* message, missing parts, non-array parts, no text-kind part) carry different
\* error.message strings.
C15_DistinctReasonPerCondition ==
    (HasError /\ ErrorCode = InvalidParams /\ PeerInvalidParams
        /\ ParamsCondition(body) # ParamsCondition(peer.body)) =>
        response.body.error.message # peer.response.body.error.message

\* C16: when the text reader yields nothing parseable and the transport
\* object also carries a pre-parsed body, the handler falls back to that body
\* instead of failing the request as malformed.
C16_FallsBackToNextStrategy ==
    (pc = "done" /\ request.transport = "text" /\ request.raw.t # "json"
        /\ "value" \in DOMAIN request) =>
        /\ body = request.value
        /\ ~(HasError /\ response.status = HttpServerError /\ run = IdleRun)

\* The position of the colon that ends an instruction at the start of a
\* cleaned text ("generate ... post ... :"), 0 when the text begins with none.
InstructionColon(c) ==
    LET posts == {i \in 2..Len(c) : "post" \in KeywordsIn(c[i])}
        colons == {j \in 1..Len(c) : c[j] = ":" /\ \E i \in posts : i < j}
    IN  IF c # <<>> /\ "generate" \in KeywordsIn(c[1]) /\ colons # {}
        THEN CHOOSE j \in colons : \A k \in colons : j <= k
        ELSE 0

\* C17: the content the generate step extracts is the cleaned text without
\* its leading instruction, cut after the colon that follows "post"; a cleaned
\* text that does not begin with an instruction is kept whole.
C17_PrefixStrippedOnlyAtStart ==
    (registered # "message3" /\ "post" \in DOMAIN run) =>
        LET c == CleanText(InputText)
        IN  run.post = IF InstructionColon(c) > 0
                       THEN Trim(SubSeq(c, InstructionColon(c) + 1, Len(c)))
                       ELSE c

\* C18: the text handed on by the generate step, and data.topic of the
\* success envelope, are the extracted post content (markup and instruction
\* prefix removed), not the text part as received.
C18_TopicIsExtractedContent ==
    /\ ("post" \in DOMAIN run /\ run.stage \in {"select", "format"}) =>
          run.data.text = Text(run.post)
    /\ (Succeeded /\ "topic" \in DOMAIN EnvelopeData) =>
          EnvelopeData.topic = Text(run.post)

\* C19: headlines are generated, and a success envelope is answered, only
\* for a text part whose cleaned and trimmed content is not empty.
C19_NoHeadlinesFromEmptyContent ==
    /\ "candidates" \in DOMAIN run => run.post # <<>>
    /\ (Succeeded /\ registered # "message3") =>
          ExtractedContent(registered, UserTextOf(body)) # <<>>

\* The place of a step in the order generate, select, format (the
\* {message, headlines} revision formats in its return step).
StageRank(stage) ==
    CASE stage = "generate" -> 1
      [] stage = "select" -> 2
      [] OTHER -> 3

\* C20: the steps of a run return in the order generate, select, format,
\* each at most once; the step in progress is the one after the last that
\* returned; a run succeeds only when every step of its chain returned (the
\* two-step revision selects within generate); after a failed step no later
\* step returns and the response carries no result.
C20_StagesInOrder ==
    /\ "done" \in DOMAIN run =>
          /\ \A i, j \in 1..Len(run.done) :
                i < j => StageRank(run.done[i]) < StageRank(run.done[j])
          /\ run.done # <<>> => run.done[1] = "generate"
          /\ Len(run.done) <= Len(Chain(registered))
          /\ run.done = SubSeq(Chain(registered), 1, Len(run.done))
          /\ run.stage \notin {"success", "failed"} =>
                run.stage = Chain(registered)[Len(run.done) + 1]
          /\ run.stage = "success" <=> run.done = Chain(registered)
    /\ Succeeded => run.stage = "success"
    /\ (Responded /\ run.stage = "failed") => ~HasResult

C20_Witness ==
    /\ Succeeded
    /\ registered = "llm3"
    /\ run.calls = 1
    /\ run.done = <<"generate", "select", "format">>

\* C21: per request the producer runs at most once (the agent is called at
\* most once, also after a failure), only for a body that passed the protocol
\* and params checks; a body that fails a check is answered without a run.
C21_ProducerCalledAtMostOnce ==
    /\ run.calls <= 1
    /\ "done" \in DOMAIN run =>
          /\ Cardinality({i \in 1..Len(run.done) : run.done[i] = "generate"}) <= 1
          /\ Validate(body) = None
          /\ registered \in AgentRevisions =>
                run.calls = (IF run.stage = "generate" THEN 0 ELSE 1)
    /\ (pc # "start" /\ thrown = None /\ Validate(body) # None) =>
          /\ NotStarted
          /\ pc = "done"
          /\ response = Validate(body)

C21_Witness ==
    /\ pc = "done"
    /\ run.stage = "failed"
    /\ run.calls = 1
    /\ response.status = HttpServerError

\* The categories in their order of precedence, and the keywords of each.
CategoryOrder == <<"achievement", "news", "excitement">>

CategoryWords(category) ==
    CASE category = "achievement" -> {"completed", "finished", "built"}
      [] category = "news" -> {"trump", "nigeria", "government", "relationship"}
      [] OTHER -> {"excited", "thrilled", "happy"}

\* C22: the template producer frames its headlines by exactly one category:
\* the earliest of achievement, news, excitement that has a keyword in the
\* content, and "general" when none has.
C22_CategoryFirstMatchWins ==
    (registered = "template3" /\ "candidates" \in DOMAIN run) =>
        LET matching == {i \in 1..3 : \E kw \in CategoryWords(CategoryOrder[i]) :
                                         Includes(run.post, kw)}
            expected == IF matching = {} THEN "general"
                        ELSE CategoryOrder[CHOOSE i \in matching :
                                              \A j \in matching : i <= j]
        IN  /\ Category(run.post) = expected
            /\ run.candidates = Frames(expected, MainTopic(run.post))
            /\ \A other \in {"achievement", "news", "excitement", "general"} \ {expected} :
                  run.candidates # Frames(other, MainTopic(run.post))

C22_Witness ==
    /\ registered = "template3"
    /\ run.stage = "success"
    /\ run.input = Text(<<"trump", " ", "built">>)
    /\ run.candidates[2] = <<"Proud to Share: ", "trump", " ", "built">>

\* C23: the candidates parsed from the agent's reply are its lines, each
\* without its numbering prefix, blank lines left out, the first 5 in reply
\* order: the line "1. H" yields the candidate "H".
C23_NumberedLinesKeepTheirText ==
    (registered \in AgentRevisions /\ "reply" \in DOMAIN run) =>
        LET kept == SelectSeq(StripNumbers(run.reply), NonEmpty)
        IN  \A i \in 1..Len(kept) : i <= NumHeadlines => run.candidates[i] = kept[i]

\* The first n candidates, numbered from 1, a blank line between two.
RECURSIVE NumberedList(_, _)
NumberedList(cands, n) ==
    IF n = 0 THEN <<>>
    ELSE NumberedList(cands, n - 1)
         \o (IF n > 1 THEN <<"\n\n">> ELSE <<>>)
         \o <<ToString(n), ". ">> \o cands[n]

\* status.message.parts[0].text and the text of the first artifact.
MessageText == response.body.result.status.message.parts[1].text
ArtifactText == response.body.result.artifacts[1].parts[1].text

\* C24: the text the format step writes is "Here are N LinkedIn headline
\* options:" with N the number of candidates, the candidates numbered 1..N in
\* their order with a blank line between, and "Recommended: " with the best
\* headline at the end; the message part and the linkedinHeadlineResponse
\* artifact carry the same text.
C24_TextBlockListsCandidates ==
    (Succeeded /\ IsJsonRpc(workflowResult.result)) =>
        /\ MessageText =
              <<"Here are ", ToString(Len(run.candidates)),
                " LinkedIn headline options:", "\n\n">>
              \o NumberedList(run.candidates, Len(run.candidates))
              \o <<"\n\n", "[bulb] Recommended: ">>
              \o EnvelopeData.bestHeadline
        /\ ArtifactText = MessageText
        /\ response.body.result.artifacts[1].name = "linkedinHeadlineResponse"

C24_Witness ==
    /\ Succeeded
    /\ registered = "llm3"
    /\ Len(run.reply) = 1
    /\ run.candidates[1] # run.candidates[NumHeadlines]
    /\ MessageText[2] = "5"
    /\ ArtifactText[Len(ArtifactText) - 2] = "[bulb] Recommended: "

\* C25: the data of the HeadlineResults artifact has the fields
\* bestHeadline, allHeadlines, topic and generatedAt; allHeadlines is the
\* candidate list the text numbers and bestHeadline the headline the text
\* recommends.
C25_DataArtifactMatchesText ==
    Succeeded =>
        /\ response.body.result.artifacts[2].name = "HeadlineResults"
        /\ DOMAIN EnvelopeData = {"bestHeadline", "allHeadlines", "topic", "generatedAt"}
        /\ EnvelopeData.allHeadlines = run.candidates
        /\ IsJsonRpc(workflowResult.result) =>
              MessageText =
                  <<"Here are ", ToString(Len(EnvelopeData.allHeadlines)),
                    " LinkedIn headline options:", "\n\n">>
                  \o NumberedList(EnvelopeData.allHeadlines, Len(EnvelopeData.allHeadlines))
                  \o <<"\n\n", "[bulb] Recommended: ">>
                  \o EnvelopeData.bestHeadline

\* C26: a 200 response is given only for a run that succeeded, and what it
\* carries is what the pipeline produced: the recommended headline is one of
\* the run's candidates and the listed headlines are the run's candidates,
\* never a placeholder standing in for an output that lacks them.
C26_NoDegradedSuccess ==
    Succeeded =>
        /\ run.stage = "success"
        /\ "candidates" \in DOMAIN run
        /\ \E i \in 1..Len(run.candidates) : EnvelopeData.bestHeadline = run.candidates[i]
        /\ \A j \in 1..Len(EnvelopeData.allHeadlines) :
               \E i \in 1..Len(run.candidates) :
                   EnvelopeData.allHeadlines[j] = run.candidates[i]

\* message.parts of the body the handler validated
InboundParts == Get(MessageOf(body), "parts").items

\* C27: the input a run is started with is the text of the first element of
\* message.parts whose kind is "text": no element before it is of kind "text",
\* and the elements after it, of kind "text" or not, play no part.
C27_InputIsFirstTextPart ==
    ~NotStarted =>
        \E i \in 1..Len(InboundParts) :
            /\ Get(InboundParts[i], "kind") = Str("text")
            /\ \A j \in 1..(i - 1) : Get(InboundParts[j], "kind") # Str("text")
            /\ run.input = Get(InboundParts[i], "text")

\* A run was started from a message of two text parts of different texts.
C27_Witness ==
    /\ ~NotStarted
    /\ Len(InboundParts) = 2
    /\ Get(InboundParts[2], "kind") = Str("text")
    /\ Truthy(Get(InboundParts[2], "text"))
    /\ Get(InboundParts[1], "kind") = Str("text")
    /\ Get(InboundParts[1], "text") # Get(InboundParts[2], "text")
    /\ run.input = Get(InboundParts[1], "text")

\* The agent's reply a run recorded, none for a template run.
ReplyOf(r) == IF "reply" \in DOMAIN r THEN r.reply ELSE <<>>

\* What an invocation holds is what its own request decides: the body it
\* works on is the body it read, a read failure or a failing check is answered
\* by that request's error, and otherwise the run was started with that
\* body's text, its candidates are the ones made from that text (and the
\* reply its own agent call got), and the response is the one built from that
\* body and that run.
OwnBodyDecides(inv) ==
    LET got == AcquireBody(inv.request)
    IN  /\ (inv.pc # "start" /\ got.ok) => inv.body = got.value
        /\ inv.response.t = "response" =>
              IF ~got.ok THEN inv.response = CatchResponse(got.error)
              ELSE IF Validate(got.value) # None
              THEN inv.response = Validate(got.value)
              ELSE /\ "input" \in DOMAIN inv.run
                   /\ inv.run.input = UserTextOf(got.value)
                   /\ inv.run.stage \in {"success", "failed"}
                   /\ inv.run.stage = "success" =>
                         inv.run.candidates
                            = Candidates(registered, inv.run.input, ReplyOf(inv.run))
                   /\ \E c \in 0..MaxClock :
                         inv.response = RespondTo(got.value, RunResult(inv.run), c)

\* C28: however the steps of two invocations interleave, each response (its
\* id, candidates, best headline and outcome) is the one its own request
\* decides, and the body an invocation works on stays the body it read.
C28_RequestsDoNotInterfere ==
    /\ OwnBodyDecides(Suspended)
    /\ peer # NoPeer => OwnBodyDecides(peer)

\* One invocation has answered its request while the run of the other, for a
\* request of another id and text, is under way.
C28_Witness ==
    /\ Succeeded
    /\ peer # NoPeer
    /\ peer.pc = "running"
    /\ peer.run.stage \in {"select", "format", "return"}
    /\ peer.run.input # run.input
    /\ Get(peer.body, "id") # response.body.id

\* The handler got a body to validate: the read did not throw.
BodyRead == pc # "start" /\ AcquireBody(request).ok

\* C29: the first failing check decides the response: a body failing the
\* protocol check is answered -32600 whatever its params are; one passing it
\* and failing a params check is answered -32602 "missing message.parts"; one
\* passing both and lacking a usable text part is answered -32602 "no text
\* part in message"; each with status 400.
C29_FirstFailingCheckDecides ==
    (BodyRead /\ Responded) =>
        /\ ProtocolInvalid(body) =>
              /\ response.status = HttpBadRequest
              /\ HasError /\ ErrorCode = InvalidRequest
        /\ (~ProtocolInvalid(body) /\ PartsInvalid(body)) =>
              /\ response.status = HttpBadRequest
              /\ HasError /\ ErrorCode = InvalidParams
              /\ response.body.error.message = "Invalid params - missing message.parts"
        /\ (~ProtocolInvalid(body) /\ ~PartsInvalid(body) /\ TextPartInvalid(body)) =>
              /\ response.status = HttpBadRequest
              /\ HasError /\ ErrorCode = InvalidParams
              /\ response.body.error.message = "Invalid params - no text part in message"

\* A body with a wrong or absent jsonrpc and no params.message was answered
\* -32600.
C29_Witness ==
    /\ BodyRead /\ Responded
    /\ Truthy(body)
    /\ Get(body, "jsonrpc") # Str("2.0")
    /\ ~Truthy(MessageOf(body))
    /\ HasError /\ ErrorCode = InvalidRequest

\* C30: when the body read and the run settle, the invocation ends with a
\* response; it never ends without one, and a response once returned is
\* never replaced by another.
C30_ExactlyOneResponse ==
    /\ [](pc = "running" => <>(run.stage \in {"success", "failed"}))
          => <>(pc = "done" /\ Responded)
    /\ [](pc = "done" => Responded)
    /\ [][Responded => response' = response]_vars

\* A run that failed was answered.
C30_Witness ==
    /\ pc = "done"
    /\ run.stage = "failed"
    /\ Responded
    /\ response.status = HttpServerError

====
